---- MODULE Spec2Model ----
(***************************************************************************)
(* Weekly report board (src/app.py): one Google Sheets worksheet holding   *)
(* one header row, one row per week and one column per department, edited  *)
(* by Streamlit sessions.  The worksheet is the shared store; load_data is  *)
(* a process-wide memoised snapshot (st.cache_data) that every handler      *)
(* clears after writing.                                                    *)
(*                                                                         *)
(* Strings are sequences of lexemes [t, d]: a word (t is the word), a      *)
(* date text YYYY.MM.DD (t = "date", d its day number), a text that has    *)
(* the digit shape of a date but is no calendar date (t = "baddate"), a    *)
(* date written without zero padding (t = "sdate"), "~" and " ".            *)
(***************************************************************************)
EXTENDS Integers, Sequences, FiniteSets, TLC

\* ------------------------------------------------------------- strings

Lex(t, d) == [t |-> t, d |-> d]
Empty == <<>>
Word(w) == <<Lex(w, 0)>>
Tilde == Lex("~", 0)
Space == Lex(" ", 0)
DateLex(n) == Lex("date", n)
BadDateLex == Lex("baddate", 0)
ShortDateLex(n) == Lex("sdate", n)

WEEK_COL == Word("WEEK")

\* f"Unnamed_{i+1}" for the 0-based header position i (k = i + 1).
Unnamed(k) == <<Lex("Unnamed_", k)>>

\* c.startswith("Unnamed_")
StartsWithUnnamed(c) == Len(c) > 0 /\ c[1].t = "Unnamed_"

\* c.startswith("_")
StartsWithUnderscore(c) == Len(c) > 0 /\ c[1].t = "_"

RECURSIVE LStrip(_)
LStrip(s) == IF s # <<>> /\ Head(s) = Space THEN LStrip(Tail(s)) ELSE s

RECURSIVE RStrip(_)
RStrip(s) ==
  IF s # <<>> /\ s[Len(s)] = Space THEN RStrip(SubSeq(s, 1, Len(s) - 1)) ELSE s

\* str.strip()
Strip(s) == RStrip(LStrip(s))

\* str.split("~")
RECURSIVE SplitTilde(_)
SplitTilde(s) ==
  IF \A i \in 1..Len(s) : s[i] # Tilde
  THEN <<s>>
  ELSE LET k == CHOOSE i \in 1..Len(s) :
                  s[i] = Tilde /\ \A j \in 1..(i - 1) : s[j] # Tilde
       IN  <<SubSeq(s, 1, k - 1)>> \o SplitTilde(SubSeq(s, k + 1, Len(s)))

\* The result of a failed parse.
NoDate == -1

\* datetime.min: the sentinel of an unparsable start date (0001.01.01).
DateMin == 0

\* datetime.strptime(p, "%Y.%m.%d"): the whole text must be one calendar
\* date; %m and %d also accept one digit.
Strptime(p) ==
  IF Len(p) = 1 /\ p[1].t \in {"date", "sdate"} THEN p[1].d ELSE NoDate

\* pattern.fullmatch(x) for \d{4}\.\d{2}\.\d{2}\s*~\s*\d{4}\.\d{2}\.\d{2}
IsDigitDate(l) == l.t \in {"date", "baddate"}

PatternFullMatch(x) ==
  /\ Len(x) >= 3
  /\ IsDigitDate(x[1])
  /\ IsDigitDate(x[Len(x)])
  /\ \E k \in 2..(Len(x) - 1) :
       /\ x[k] = Tilde
       /\ \A j \in 2..(Len(x) - 1) : j # k => x[j] = Space

\* load_data.parse_start_date: only the text before the first "~" is parsed.
parse_start_date(week_str) ==
  LET start == Strip(SplitTilde(week_str)[1])
      d     == Strptime(start)
  IN  IF d = NoDate THEN DateMin ELSE d

\* parse_week_range: <<start, end>>, or <<NoDate, NoDate>> for (None, None).
parse_week_range(week_str) ==
  LET parts == SplitTilde(week_str)
  IN  IF Len(parts) # 2
      THEN <<NoDate, NoDate>>
      ELSE LET s == Strptime(Strip(parts[1]))
               e == Strptime(Strip(parts[2]))
           IN  IF s = NoDate \/ e = NoDate THEN <<NoDate, NoDate>> ELSE <<s, e>>

\* f"{d:%Y.%m.%d}"
FormatDate(d) == <<DateLex(d)>>

\* f"{new_start:%Y.%m.%d}~{new_end:%Y.%m.%d}"
FormatWeek(s, e) == FormatDate(s) \o <<Tilde>> \o FormatDate(e)

\* ------------------------------------------------------------ worksheet
\* The worksheet is the grid of its cell texts: a sequence of rows of equal
\* width, row 1 the header.  Cells store the text they are given.

Blanks(n) == [i \in 1..n |-> Empty]

Width(sh) == IF sh = <<>> THEN 0 ELSE Len(sh[1])

IsBlankRow(r) == \A i \in 1..Len(r) : r[i] = Empty

\* A row as the API returns it: without its trailing empty cells.
RECURSIVE TrimRow(_)
TrimRow(r) ==
  IF r # <<>> /\ r[Len(r)] = Empty THEN TrimRow(SubSeq(r, 1, Len(r) - 1)) ELSE r

\* ws.get_all_values(): the grid without its trailing empty rows (the API
\* omits them), rows filled to equal width.
RECURSIVE get_all_values(_)
get_all_values(sh) ==
  IF sh # <<>> /\ IsBlankRow(sh[Len(sh)])
  THEN get_all_values(SubSeq(sh, 1, Len(sh) - 1))
  ELSE sh

\* ws.row_values(1): the header row without its trailing empty cells.
row_values1(sh) == TrimRow(sh[1])

\* list.index(x): the first position of x, 0 when x is absent.
IndexOf(seq, x) ==
  IF \E i \in 1..Len(seq) : seq[i] = x
  THEN CHOOSE i \in 1..Len(seq) : seq[i] = x /\ \A j \in 1..(i - 1) : seq[j] # x
  ELSE 0

\* get_col_index(ws, col_name): the 1-based column, 0 for None.
get_col_index(sh, col_name) == IndexOf(row_values1(sh), col_name)

\* The grid widened to n columns.
Widen(sh, n) ==
  [r \in 1..Len(sh) |->
     IF Len(sh[r]) < n THEN sh[r] \o Blanks(n - Len(sh[r])) ELSE sh[r]]

\* ws.update_cell(row, col, value) on a row the grid has.
update_cell(sh, row, col, value) ==
  LET w == Widen(sh, col)
  IN  [w EXCEPT ![row][col] = value]

\* ws.update_cells(cells): cells is a sequence of [row, col, value], applied
\* in order as one request.
RECURSIVE update_cells(_, _)
update_cells(sh, cells) ==
  IF cells = <<>>
  THEN sh
  ELSE update_cells(update_cell(sh, cells[1].row, cells[1].col, cells[1].value),
                    Tail(cells))

\* A faulty variant of insert_row: the index taken as 0-based.
insert_row_after(sh, values, index) ==
  LET n == IF Len(values) > Width(sh) THEN Len(values) ELSE Width(sh)
      w == Widen(sh, n)
  IN  SubSeq(w, 1, index) \o <<values \o Blanks(n - Len(values))>>
        \o SubSeq(w, index + 1, Len(w))

\* ws.insert_row(values, index): the new row takes position index, the rows
\* from there on move down; a short row leaves its remaining cells empty.
insert_row(sh, values, index) ==
  LET n == IF Len(values) > Width(sh) THEN Len(values) ELSE Width(sh)
      w == Widen(sh, n)
  IN  SubSeq(w, 1, index - 1) \o <<values \o Blanks(n - Len(values))>>
        \o SubSeq(w, index, Len(w))

\* ws.insert_cols([name], 1): a new first column whose header cell is name.
insert_cols1(sh, name) ==
  [r \in 1..Len(sh) |-> <<IF r = 1 THEN name ELSE Empty>> \o sh[r]]

\* ws.delete_columns(idx)
delete_columns(sh, idx) ==
  [r \in 1..Len(sh) |->
     SubSeq(sh[r], 1, idx - 1) \o SubSeq(sh[r], idx + 1, Len(sh[r]))]

\* ------------------------------------------------------------ load_data
\* A table (DataFrame) is [crash, columns, rows]: columns are the names of
\* its columns other than _sheet_row and _start_date, in order; each row is
\* [sheet_row, vals, start] with vals aligned to columns.  crash is TRUE
\* when load_data raised instead of returning.

EmptyDf == [crash |-> FALSE, columns |-> <<>>, rows |-> <<>>]

CrashDf == [crash |-> TRUE, columns |-> <<>>, rows |-> <<>>]

\* The header names: stripped, a blank one replaced by its placeholder.
ResolveHeader(raw_header) ==
  [i \in 1..Len(raw_header) |->
     LET h == Strip(raw_header[i])
     IN  IF h = Empty THEN Unnamed(i) ELSE h]

\* A body row padded or truncated to the header width.
NormalizeRow(r, n_cols) ==
  IF Len(r) < n_cols
  THEN r \o Blanks(n_cols - Len(r))
  ELSE SubSeq(r, 1, n_cols)

\* The header positions that stay: a placeholder column whose cells are all
\* empty is dropped.
KeptCols(header, rows) ==
  SelectSeq([i \in 1..Len(header) |-> i],
            LAMBDA i : ~(/\ StartsWithUnnamed(header[i])
                         /\ \A r \in 1..Len(rows) : rows[r][i] = Empty))

\* Whether a column name occurs more than once (df[name] is then a frame,
\* not a series).
IsDupName(columns, name) ==
  Cardinality({i \in 1..Len(columns) : columns[i] = name}) > 1

\* s.apply(lambda x: bool(pattern.fullmatch(x.strip()))).any()
ColMatches(rows, k) ==
  \E r \in 1..Len(rows) : PatternFullMatch(Strip(rows[r].vals[k]))

\* The scan for the week column: the first column that is duplicated
\* (x.strip() raises on it) or has a matching cell; 0 when there is none.
FirstScanStop(columns, rows) ==
  LET stop(k) == IsDupName(columns, columns[k]) \/ ColMatches(rows, k)
  IN  IF \E k \in 1..Len(columns) : stop(k)
      THEN CHOOSE k \in 1..Len(columns) :
             stop(k) /\ \A j \in 1..(k - 1) : ~stop(j)
      ELSE 0

\* The orders sort_values("_start_date", ascending=False) may return: start
\* dates never increase; the default sort kind is not a stable one, so rows
\* of equal start date come in any order.
SortOrders(rows) ==
  LET n == Len(rows)
  IN  {p \in [1..n -> 1..n] :
         /\ \A i, j \in 1..n : i # j => p[i] # p[j]
         /\ \A i \in 1..(n - 1) : rows[p[i]].start >= rows[p[i + 1]].start}

\* A faulty variant of Reordered: the rows renumbered by their place in the
\* sorted table.
ReorderedRenumbered(rows, p) ==
  [i \in 1..Len(rows) |-> [rows[p[i]] EXCEPT !.sheet_row = (i - 1) + 2]]

\* The rows in the order p, each keeping its _sheet_row
\* (reset_index(drop=True) renumbers only the index).
Reordered(rows, p) == [i \in 1..Len(rows) |-> rows[p[i]]]

\* load_data(): the tables a load of the worksheet may return.
load_data(sh) ==
  LET values == get_all_values(sh)
  IN  IF Len(values) < 2
      THEN {EmptyDf}
      ELSE
        LET raw_header == values[1]
            header     == ResolveHeader(raw_header)
            n_cols     == Len(header)
            body       == [r \in 1..(Len(values) - 1) |->
                             NormalizeRow(values[r + 1], n_cols)]
            keep       == KeptCols(header, body)
            columns    == [k \in 1..Len(keep) |-> header[keep[k]]]
            rows       == [r \in 1..Len(body) |->
                             [sheet_row |-> (r - 1) + 2,
                              vals      |-> [k \in 1..Len(keep) |-> body[r][keep[k]]],
                              start     |-> DateMin]]
            wk         == FirstScanStop(columns, rows)
        IN  IF wk = 0
            THEN {[crash |-> FALSE, columns |-> columns, rows |-> rows]}
            ELSE IF IsDupName(columns, columns[wk])
            THEN {CrashDf}
            ELSE
              LET hasWeek  == \E k \in 1..Len(columns) : columns[k] = WEEK_COL
                  columns2 == IF hasWeek THEN columns ELSE Append(columns, WEEK_COL)
                  wpos     == IndexOf(columns2, WEEK_COL)
                  rows2    == [r \in 1..Len(rows) |->
                                LET v == IF hasWeek
                                         THEN rows[r].vals
                                         ELSE Append(rows[r].vals, rows[r].vals[wk])
                                IN  [sheet_row |-> rows[r].sheet_row,
                                     vals      |-> v,
                                     start     |-> parse_start_date(v[wpos])]]
              IN  {[crash   |-> FALSE,
                    columns |-> columns2,
                    rows    |-> Reordered(rows2, p)] :
                     p \in SortOrders(rows2)}

\* df.empty
DfEmpty(df) == df.rows = <<>> \/ df.columns = <<>>

\* WEEK_COL in df.columns
HasWeekCol(df) == IndexOf(df.columns, WEEK_COL) # 0

\* get_dept_columns(df)
get_dept_columns(df) ==
  SelectSeq(df.columns, LAMBDA c : c # WEEK_COL /\ ~StartsWithUnderscore(c))

\* df[WEEK_COL].astype(str).tolist()
WeekOptions(df) ==
  [i \in 1..Len(df.rows) |-> df.rows[i].vals[IndexOf(df.columns, WEEK_COL)]]

\* ----------------------------------------------------------------- main
\* What one script run of main() leaves on a session's page.

\* "전체 부서", the pseudo department of the department buttons.
ALL == Word("(all departments)")

NoView ==
  [mode |-> "init", opts |-> <<>>, week |-> Empty, areas |-> <<>>,
   editor |-> FALSE, canSave |-> FALSE]

\* st.selectbox(options=week_options, index=0, key="week_select"): the
\* choice made on the page holds while the options are the ones it was made
\* from; a changed option list gives a new widget at index 0.
SelectedWeek(prev, opts) ==
  IF prev.opts = opts /\ IndexOf(opts, prev.week) # 0 THEN prev.week ELSE opts[1]

\* The text areas of the main content, each with the arguments bound to its
\* on_change callback, and whether the run raised before the save button.
RenderAreas(df, selected_week, dept_filter) ==
  LET wpos         == IndexOf(df.columns, WEEK_COL)
      selected_idx == CHOOSE i \in 1..Len(df.rows) :
                        /\ df.rows[i].vals[wpos] = selected_week
                        /\ \A j \in 1..(i - 1) : df.rows[j].vals[wpos] # selected_week
      row          == df.rows[selected_idx]
      dept_cols    == get_dept_columns(df)
      area(d, r)   == [dept |-> d, week |-> r.vals[wpos], sheet_row |-> r.sheet_row]
  IN  IF dept_filter = ALL
      THEN LET bad(k) == IsDupName(df.columns, dept_cols[k])
               n      == IF \E k \in 1..Len(dept_cols) : bad(k)
                         THEN (CHOOSE k \in 1..Len(dept_cols) :
                                 bad(k) /\ \A j \in 1..(k - 1) : ~bad(j)) - 1
                         ELSE Len(dept_cols)
           IN  [areas   |-> [k \in 1..n |-> area(dept_cols[k], row)],
                crashed |-> n < Len(dept_cols)]
      ELSE IF IsDupName(df.columns, dept_filter)
      THEN [areas |-> <<>>, crashed |-> TRUE]
      ELSE IF selected_idx + 1 <= Len(df.rows)
      THEN LET prev_row == df.rows[selected_idx + 1]
           IN  IF prev_row.vals[wpos] = selected_week
               THEN [areas |-> <<area(dept_filter, row)>>, crashed |-> TRUE]
               ELSE [areas   |-> <<area(dept_filter, row), area(dept_filter, prev_row)>>,
                     crashed |-> FALSE]
      ELSE [areas |-> <<area(dept_filter, row)>>, crashed |-> FALSE]

\* Whether main() gets past its two early returns with this table.
ShowsTable(df) == ~df.crash /\ ~DfEmpty(df) /\ HasWeekCol(df)

\* The page after a run of main() that no button ends early.
RenderView(df, prev, dept_filter) ==
  IF df.crash THEN [NoView EXCEPT !.mode = "crash"]
  ELSE IF DfEmpty(df) THEN [NoView EXCEPT !.mode = "empty"]
  ELSE IF ~HasWeekCol(df) THEN [NoView EXCEPT !.mode = "noweek"]
  ELSE LET opts == WeekOptions(df)
           week == SelectedWeek(prev, opts)
           ra   == RenderAreas(df, week, dept_filter)
       IN  [mode |-> "table", opts |-> opts, week |-> week, areas |-> ra.areas,
            editor |-> TRUE, canSave |-> ~ra.crashed]

\* The text a text area shows for (dept, row): "" when the table has no
\* such column.
CurrentText(df, dept, vals) ==
  IF IndexOf(df.columns, dept) # 0 THEN vals[IndexOf(df.columns, dept)] ELSE Empty

\* ------------------------------------------------------------- handlers
\* Each handler is a function of the worksheet and its arguments to
\* [sheet, clear, msg]: the worksheet it leaves, whether it called
\* load_data.clear(), and the notice it shows.  The calls to the worksheet
\* are taken to succeed: a handler runs to its end.

\* A faulty variant of save_cell: the write without load_data.clear().
save_cell_no_clear(sh, sheet_row, col_name, value) ==
  LET col_idx == get_col_index(sh, col_name)
  IN  IF col_idx = 0
      THEN [sheet |-> sh, clear |-> FALSE, msg |-> "warning: column not found"]
      ELSE [sheet |-> update_cell(sh, sheet_row, col_idx, value),
            clear |-> FALSE, msg |-> "toast: auto-saved"]

save_cell(sh, sheet_row, col_name, value) ==
  LET col_idx == get_col_index(sh, col_name)
  IN  IF col_idx = 0
      THEN [sheet |-> sh, clear |-> FALSE, msg |-> "warning: column not found"]
      ELSE [sheet |-> update_cell(sh, sheet_row, col_idx, value),
            clear |-> TRUE, msg |-> "toast: auto-saved"]

\* The cells the "save all" button collects: texts is a sequence of
\* [dept, week, text], one per rendered text area.
CollectCells(sh, df, dept_filter, texts) ==
  LET wpos == IndexOf(df.columns, WEEK_COL)
      first(w) == CHOOSE i \in 1..Len(df.rows) :
                    /\ df.rows[i].vals[wpos] = w
                    /\ \A j \in 1..(i - 1) : df.rows[j].vals[wpos] # w
      cell(t) == [row   |-> df.rows[first(t.week)].sheet_row,
                  col   |-> get_col_index(sh, t.dept),
                  value |-> t.text]
      all == [k \in 1..Len(texts) |-> cell(texts[k])]
  IN  SelectSeq(all, LAMBDA c : c.col # 0)

save_all(sh, df, dept_filter, texts) ==
  LET cells == CollectCells(sh, df, dept_filter, texts)
  IN  IF cells = <<>>
      THEN [sheet |-> sh, clear |-> FALSE, msg |-> "error: no target department"]
      ELSE [sheet |-> update_cells(sh, cells), clear |-> TRUE,
            msg |-> "success: saved"]

\* The day datetime.today() returns.
Today == 40

\* The choices of the "new period length" radio.
UnitChoices == {"same as last", "1 week", "2 weeks"}

\* new_week_str, from the first row of the table and the radio's choice.
NewWeekStr(df, unit_choice) ==
  LET last_week_str == WeekOptions(df)[1]
      lr            == parse_week_range(last_week_str)
      parsed        == lr[1] # NoDate /\ lr[2] # NoDate
      span_days     == (lr[2] - lr[1]) + 1
      default_weeks == IF parsed THEN (IF span_days <= 7 THEN 1 ELSE 2) ELSE 2
      weeks_to_add  == IF unit_choice = "1 week" THEN 1
                       ELSE IF unit_choice = "2 weeks" THEN 2
                       ELSE default_weeks
      new_start     == IF parsed THEN lr[2] + 1 ELSE Today
      new_end       == new_start + (7 * weeks_to_add - 1)
  IN  FormatWeek(new_start, new_end)

\* The "add new period" button.
add_week(sh, new_week_str) ==
  LET headers == row_values1(sh)
      idx     == IndexOf(headers, WEEK_COL)
  IN  IF idx # 0
      THEN [sheet |-> insert_row(sh,
                        [i \in 1..Len(headers) |->
                           IF i = idx THEN new_week_str ELSE Empty], 2),
            clear |-> TRUE, msg |-> "success: period added"]
      ELSE LET sh2      == insert_cols1(sh, WEEK_COL)
               headers2 == row_values1(sh2)
           IN  [sheet |-> insert_row(sh2,
                            [i \in 1..Len(headers2) |->
                               IF i = 1 THEN new_week_str ELSE Empty], 2),
                clear |-> TRUE, msg |-> "success: period added"]

\* new_list: the edited names stripped, blank ones left out.
CleanNames(edited) ==
  SelectSeq([i \in 1..Len(edited) |-> Strip(edited[i])], LAMBDA x : x # Empty)

\* The positional comparison of the two lists.
Renames(original, new_list) ==
  LET n   == IF Len(original) < Len(new_list) THEN Len(original) ELSE Len(new_list)
      idx == SelectSeq([i \in 1..n |-> i], LAMBDA i : original[i] # new_list[i])
  IN  [k \in 1..Len(idx) |-> <<original[idx[k]], new_list[idx[k]]>>]

ToDelete(original, new_list) ==
  IF Len(original) > Len(new_list)
  THEN SubSeq(original, Len(new_list) + 1, Len(original))
  ELSE <<>>

ToAdd(original, new_list) ==
  IF Len(new_list) > Len(original)
  THEN SubSeq(new_list, Len(original) + 1, Len(new_list))
  ELSE <<>>

\* for old, new_name in renames: overwrite the header cell found by name.
RECURSIVE ApplyRenames(_, _)
ApplyRenames(sh, renames) ==
  IF renames = <<>>
  THEN sh
  ELSE LET col_idx == get_col_index(sh, renames[1][1])
       IN  ApplyRenames(IF col_idx # 0
                        THEN update_cell(sh, 1, col_idx, renames[1][2])
                        ELSE sh,
                        Tail(renames))

\* sorted(col_indices, reverse=True)
RECURSIVE SortedDesc(_)
SortedDesc(seq) ==
  IF seq = <<>>
  THEN <<>>
  ELSE LET m == CHOOSE i \in 1..Len(seq) : \A j \in 1..Len(seq) : seq[j] <= seq[i]
       IN  <<seq[m]>> \o SortedDesc(SubSeq(seq, 1, m - 1) \o SubSeq(seq, m + 1, Len(seq)))

RECURSIVE DeleteAll(_, _)
DeleteAll(sh, indices) ==
  IF indices = <<>>
  THEN sh
  ELSE DeleteAll(delete_columns(sh, indices[1]), Tail(indices))

\* The columns of to_delete are all looked up first, then deleted from the
\* right.
ApplyDeletes(sh, to_delete) ==
  LET found       == [k \in 1..Len(to_delete) |-> get_col_index(sh, to_delete[k])]
      col_indices == SelectSeq(found, LAMBDA i : i # 0)
  IN  DeleteAll(sh, SortedDesc(col_indices))

\* for name in to_add: the header cell after the last named one.
RECURSIVE ApplyAdds(_, _)
ApplyAdds(sh, to_add) ==
  IF to_add = <<>>
  THEN sh
  ELSE LET headers_now == row_values1(sh)
           new_idx     == Len(headers_now) + 1
       IN  ApplyAdds(update_cell(sh, 1, new_idx, to_add[1]), Tail(to_add))

\* The "save department changes" button; original is dept_cols.
dept_save(sh, original, edited) ==
  LET new_list == CleanNames(edited)
      sh1      == ApplyRenames(sh, Renames(original, new_list))
      sh2      == ApplyDeletes(sh1, ToDelete(original, new_list))
      sh3      == ApplyAdds(sh2, ToAdd(original, new_list))
  IN  [sheet |-> sh3, clear |-> TRUE, msg |-> "success: departments saved"]

\* --------------------------------------------------------------- bounds

\* Body rows the worksheet may grow to.
MaxRows == 2

\* Entries of the department editor's list.
MaxDepts == 2

\* Auto-saves, save-alls and department saves in one behaviour (new
\* periods are bounded by MaxRows).
MaxOps == 1

Sessions == {"s1", "s2"}

\* Texts a user types into a text area.
Values == {Word("v")}

\* Names a user types into the department editor (a blank entry included).
DeptNames == {Word("A"), Word("B"), Empty}

\* The worksheets a behaviour starts from.  Headers: the week column named
\* WEEK, the week column under another name, and a column with a blank
\* header cell.  Week cells: two parsable ranges (one written with spaces
\* around "~"), a range whose end is no date, and a text that is no date.
HeaderWeek == <<WEEK_COL, Word("A"), Word("B")>>

HeaderPeriod == <<Word("Period"), Word("A")>>

HeaderBlank == <<WEEK_COL, Word("A"), Empty>>

Week1 == FormatWeek(1, 7)

Week2 == <<DateLex(8), Space, Tilde, Space, DateLex(14)>>

HalfWeek == <<DateLex(15), Tilde, Lex("x", 0)>>

NoWeek == Word("tbd")

InitRow(header, week_cell) ==
  [i \in 1..Len(header) |->
     IF i = 1 THEN week_cell ELSE IF i = 2 THEN Word("x") ELSE Word("n")]

InitSheet(header, week_cells) ==
  <<header>> \o [r \in 1..Len(week_cells) |-> InitRow(header, week_cells[r])]

CommonWeekCells == { <<Week1>>, <<NoWeek>>, <<Week1, Week2>> }

InitSheets ==
  { InitSheet(HeaderWeek, ws) :
      ws \in CommonWeekCells
              \cup { <<>>, <<HalfWeek, Week1>>, <<NoWeek, Week1>> } }
  \cup { InitSheet(HeaderPeriod, ws) : ws \in CommonWeekCells }
  \cup { InitSheet(HeaderBlank, ws) : ws \in CommonWeekCells }

\* The worksheets a behaviour of two sessions starts from.
InitSheetsTwo ==
  { InitSheet(HeaderWeek, <<Week1>>), InitSheet(HeaderBlank, <<Week1>>) }

\* ---------------------------------------------------------------- state

VARIABLES
  sheet,    \* the worksheet
  cache,    \* load_data's memoised value: [valid, df]
  view,     \* per session: the page its last run left
  filter,   \* per session: st.session_state["selected_dept"]
  used,     \* how many auto-saves, save-alls and department saves have run
  last      \* the last interaction: what it was given and what it reported

vars == <<sheet, cache, view, filter, used, last>>

NoCache == [valid |-> FALSE, df |-> EmptyDf]

NoArea == [dept |-> Empty, week |-> Empty, sheet_row |-> 0]

NoOp ==
  [op |-> "none", s |-> "", pre |-> <<>>, wrote |-> FALSE,
   msg |-> "", area |-> NoArea, val |-> Empty, texts |-> <<>>, cells |-> <<>>,
   label |-> Empty, original |-> <<>>, edited |-> <<>>]

Init ==
  /\ sheet \in InitSheets
  /\ cache = NoCache
  /\ view = [s \in Sessions |-> NoView]
  /\ filter = [s \in Sessions |-> ALL]
  /\ used = 0
  /\ last = NoOp

\* df = load_data(): the memoised table when there is one, else a load.
Loads(c, sh) == IF c.valid THEN {c.df} ELSE load_data(sh)

\* The memo after load_data() returned df (a raised load stores nothing).
CacheAfter(c, df) ==
  IF c.valid \/ df.crash THEN c ELSE [valid |-> TRUE, df |-> df]

\* The memo after a handler: load_data.clear() empties it.
Cleared(c, res) == IF res.clear THEN NoCache ELSE c

\* The run of main() that follows a handler (st.rerun(), or the script body
\* after a callback): it loads the table and draws the page.
Rerun(s, sh, c, prev, flt) ==
  \E df \in Loads(c, sh) :
    /\ cache' = CacheAfter(c, df)
    /\ view' = [view EXCEPT ![s] = RenderView(df, prev, flt)]

\* -------------------------------------------------------------- actions

\* A page load or any interaction that only reruns the script.
Render(s) ==
  /\ Rerun(s, sheet, cache, view[s], filter[s])
  /\ last' = [NoOp EXCEPT !.op = "render", !.s = s, !.pre = sheet]
  /\ UNCHANGED <<sheet, filter, used>>

\* The "data sync" button: load_data.clear(), st.rerun().
Sync(s) ==
  /\ view[s].mode # "init"
  /\ Rerun(s, sheet, NoCache, view[s], filter[s])
  /\ last' = [NoOp EXCEPT !.op = "sync", !.s = s, !.pre = sheet]
  /\ UNCHANGED <<sheet, filter, used>>

\* The user picks a period in the selectbox.
SelectWeek(s) ==
  /\ view[s].mode = "table"
  /\ \E w \in {view[s].opts[i] : i \in 1..Len(view[s].opts)} :
       /\ w # view[s].week
       /\ Rerun(s, sheet, cache, [view[s] EXCEPT !.week = w], filter[s])
  /\ last' = [NoOp EXCEPT !.op = "select week", !.s = s, !.pre = sheet]
  /\ UNCHANGED <<sheet, filter, used>>

\* The user clicks a department button of the sidebar the run draws.
SelectDept(s) ==
  /\ view[s].mode = "table"
  /\ \E df \in Loads(cache, sheet) :
       /\ ShowsTable(df)
       /\ \E d \in {ALL} \cup {get_dept_columns(df)[i] :
                                 i \in 1..Len(get_dept_columns(df))} :
            /\ d # filter[s]
            /\ filter' = [filter EXCEPT ![s] = d]
            /\ Rerun(s, sheet, CacheAfter(cache, df),
                     [view[s] EXCEPT !.opts = WeekOptions(df),
                                     !.week = SelectedWeek(view[s], WeekOptions(df))],
                     d)
  /\ last' = [NoOp EXCEPT !.op = "select dept", !.s = s, !.pre = sheet]
  /\ UNCHANGED <<sheet, used>>

\* A text area of the page loses focus after an edit: its on_change
\* callback save_cell runs with the arguments bound when the page was
\* drawn, then the script body runs.
EditBlur(s) ==
  /\ used < MaxOps
  /\ \E k \in 1..Len(view[s].areas), v \in Values :
       LET a   == view[s].areas[k]
           res == save_cell(sheet, a.sheet_row, a.dept, v)
       IN  /\ sheet' = res.sheet
           /\ Rerun(s, res.sheet, Cleared(cache, res), view[s], filter[s])
           /\ last' = [NoOp EXCEPT !.op = "save_cell", !.s = s, !.pre = sheet,
                                   !.wrote = res.clear, !.msg = res.msg,
                                   !.area = a, !.val = v]
  /\ used' = used + 1
  /\ UNCHANGED filter

\* The texts the text areas of a run hold when the save button is read: a
\* text area that was on the page before holds what the user left in it,
\* a new one the table's text.
TextChoices(df, areas, prev) ==
  LET wpos     == IndexOf(df.columns, WEEK_COL)
      rowOf(a) == CHOOSE i \in 1..Len(df.rows) : df.rows[i].sheet_row = a.sheet_row
      cur(a)   == CurrentText(df, a.dept, df.rows[rowOf(a)].vals)
      old(a)   == \E j \in 1..Len(prev.areas) :
                    prev.areas[j].dept = a.dept /\ prev.areas[j].week = a.week
      cand(a)  == IF old(a) THEN Values \cup {cur(a)} ELSE {cur(a)}
      all      == UNION {cand(areas[k]) : k \in 1..Len(areas)}
  IN  { [k \in 1..Len(areas) |->
           [dept |-> areas[k].dept, week |-> areas[k].week, text |-> f[k]]] :
        f \in {g \in [1..Len(areas) -> all] :
                 \A k \in 1..Len(areas) : g[k] \in cand(areas[k])} }

\* The "save changes" button.
SaveAll(s) ==
  /\ used < MaxOps
  /\ view[s].canSave
  /\ \E df \in Loads(cache, sheet) :
       LET c0 == CacheAfter(cache, df)
       IN  IF ~ShowsTable(df)
           THEN /\ sheet' = sheet
                /\ Rerun(s, sheet, c0, view[s], filter[s])
                /\ last' = [NoOp EXCEPT !.op = "render", !.s = s, !.pre = sheet]
           ELSE
             LET opts == WeekOptions(df)
                 week == SelectedWeek(view[s], opts)
                 ra   == RenderAreas(df, week, filter[s])
                 here == [view[s] EXCEPT !.opts = opts, !.week = week]
             IN  IF ra.crashed
                 THEN /\ sheet' = sheet
                      /\ Rerun(s, sheet, c0, view[s], filter[s])
                      /\ last' = [NoOp EXCEPT !.op = "render", !.s = s, !.pre = sheet]
                 ELSE \E texts \in TextChoices(df, ra.areas, view[s]) :
                        LET res == save_all(sheet, df, filter[s], texts)
                        IN  /\ sheet' = res.sheet
                            /\ Rerun(s, res.sheet, Cleared(c0, res), here, filter[s])
                            /\ last' = [NoOp EXCEPT
                                          !.op = "save_all", !.s = s, !.pre = sheet,
                                          !.wrote = res.clear, !.msg = res.msg,
                                          !.texts = texts,
                                          !.cells = CollectCells(sheet, df, filter[s], texts)]
  /\ used' = used + 1
  /\ UNCHANGED filter

\* The "add new period" button.
AddWeek(s) ==
  /\ view[s].mode = "table"
  /\ Len(sheet) - 1 < MaxRows
  /\ \E df \in Loads(cache, sheet) :
       LET c0 == CacheAfter(cache, df)
       IN  IF ~ShowsTable(df)
           THEN /\ sheet' = sheet
                /\ Rerun(s, sheet, c0, view[s], filter[s])
                /\ last' = [NoOp EXCEPT !.op = "render", !.s = s, !.pre = sheet]
           ELSE \E unit_choice \in UnitChoices :
                  LET new_week_str == NewWeekStr(df, unit_choice)
                      res  == add_week(sheet, new_week_str)
                      opts == WeekOptions(df)
                      here == [view[s] EXCEPT !.opts = opts,
                                              !.week = SelectedWeek(view[s], opts)]
                  IN  /\ sheet' = res.sheet
                      /\ Rerun(s, res.sheet, Cleared(c0, res), here, filter[s])
                      /\ last' = [NoOp EXCEPT
                                    !.op = "add_week", !.s = s, !.pre = sheet,
                                    !.wrote = res.clear, !.msg = res.msg,
                                    !.label = new_week_str]
  /\ UNCHANGED <<filter, used>>

\* The lists the department editor may hold when its button is clicked.
EditedLists ==
  UNION {[1..n -> DeptNames] : n \in 0..MaxDepts}

\* The "save department changes" button.
DeptSave(s) ==
  /\ used < MaxOps
  /\ view[s].editor
  /\ \E df \in Loads(cache, sheet) :
       LET c0 == CacheAfter(cache, df)
       IN  IF ~ShowsTable(df)
           THEN /\ sheet' = sheet
                /\ Rerun(s, sheet, c0, view[s], filter[s])
                /\ last' = [NoOp EXCEPT !.op = "render", !.s = s, !.pre = sheet]
           ELSE \E edited \in EditedLists :
                  LET original == get_dept_columns(df)
                      res  == dept_save(sheet, original, edited)
                      opts == WeekOptions(df)
                      here == [view[s] EXCEPT !.opts = opts,
                                              !.week = SelectedWeek(view[s], opts)]
                  IN  /\ sheet' = res.sheet
                      /\ Rerun(s, res.sheet, Cleared(c0, res), here, filter[s])
                      /\ last' = [NoOp EXCEPT
                                    !.op = "dept_save", !.s = s, !.pre = sheet,
                                    !.wrote = res.clear, !.msg = res.msg,
                                    !.original = original, !.edited = edited]
  /\ used' = used + 1
  /\ UNCHANGED filter

InitTwo == Init /\ sheet \in InitSheetsTwo

\* One session on the worksheet.
Next ==
    \/ Render("s1")
    \/ Sync("s1")
    \/ SelectWeek("s1")
    \/ SelectDept("s1")
    \/ EditBlur("s1")
    \/ SaveAll("s1")
    \/ AddWeek("s1")
    \/ DeptSave("s1")

Spec == Init /\ [][Next]_vars

\* Two sessions on the worksheet, their interactions interleaved.
NextTwo ==
  \E s \in Sessions :
    \/ Render(s)
    \/ SelectWeek(s)
    \/ SelectDept(s)
    \/ EditBlur(s)
    \/ SaveAll(s)
    \/ AddWeek(s)

SpecTwo == InitTwo /\ [][NextTwo]_vars

\* --------------------------------------------------------------- claims

\* The non-empty cells of a row, in order.
NonEmptyCells(r) == SelectSeq(r, LAMBDA x : x # Empty)

\* The cells of a table row that came from the worksheet: all of them, but
\* the copy of the week column that a table without a WEEK header gets.
SheetCells(df, k, sh) ==
  IF IndexOf(ResolveHeader(sh[1]), WEEK_COL) # 0 \/ ~HasWeekCol(df)
  THEN df.rows[k].vals
  ELSE SubSeq(df.rows[k].vals, 1, Len(df.rows[k].vals) - 1)

\* C2: in the table load_data returned, there is one row per body row of
\* the grid, and the row carrying _sheet_row = i + 2 holds the cells of body
\* position i (0-based), wherever the sort has put it.
C2_SheetRowIsBodyPosition ==
  (cache.valid /\ ~DfEmpty(cache.df)) =>
    LET df     == cache.df
        values == get_all_values(sheet)
    IN  /\ Len(df.rows) = Len(values) - 1
        /\ \A i \in 0..(Len(values) - 2) :
             \E k \in 1..Len(df.rows) :
               /\ df.rows[k].sheet_row = i + 2
               /\ NonEmptyCells(SheetCells(df, k, sheet))
                    = NonEmptyCells(values[i + 2])
               /\ \A j \in 1..Len(df.rows) :
                    df.rows[j].sheet_row = i + 2 => j = k

\* C2 witness: a loaded table whose sort moved a row away from its place
\* in the worksheet.
C2_Witness ==
  /\ cache.valid
  /\ \E k \in 1..Len(cache.df.rows) :
       /\ cache.df.rows[k].sheet_row # k + 1
       /\ cache.df.rows[k].vals # cache.df.rows[cache.df.rows[k].sheet_row - 1].vals

ShowsAt(df, dept, week, v) ==
  /\ ShowsTable(df)
  /\ IndexOf(df.columns, dept) # 0
  /\ IndexOf(WeekOptions(df), week) # 0
  /\ df.rows[IndexOf(WeekOptions(df), week)].vals[IndexOf(df.columns, dept)] = v

\* Whether the worksheet has column dept and a row of week label week.
TargetExists(sh, dept, week) ==
  /\ get_col_index(sh, dept) # 0
  /\ \E df \in load_data(sh) : ShowsTable(df) /\ IndexOf(WeekOptions(df), week) # 0

\* The notices that tell the user a department's column was not found.
LookupReports == {"warning: column not found", "error: no target department"}

\* C1: a value written to (D, W) by the auto-save or by "save all" is the
\* value a reload shows at (D, W); only when column D or row W is missing
\* at write time is it otherwise, and then nothing is written for (D, W)
\* and the auto-save reports the lookup error.  (What "save all" reports
\* for a department it skipped is the subject of C5.)
C1_RoundTrip ==
  /\ last.op = "save_cell" =>
       IF TargetExists(last.pre, last.area.dept, last.area.week)
       THEN \E df \in load_data(sheet) :
              ShowsAt(df, last.area.dept, last.area.week, last.val)
       ELSE sheet = last.pre /\ last.msg \in LookupReports
  /\ last.op = "save_all" =>
       \A k \in 1..Len(last.texts) :
         LET t == last.texts[k]
         IN  IF TargetExists(last.pre, t.dept, t.week)
             THEN \E df \in load_data(sheet) : ShowsAt(df, t.dept, t.week, t.text)
             ELSE \A c \in 1..Len(last.cells) :
                    last.cells[c].col # get_col_index(last.pre, t.dept)

\* Whether no cell of the grid's body matches the week-range pattern.
NoWeekPattern(sh) ==
  \A r \in 2..Len(sh) : \A c \in 1..Len(sh[r]) : ~PatternFullMatch(Strip(sh[r][c]))

\* C3: the loaded table is in descending order of parsed start date, rows
\* of equal start date are in worksheet order, and every row whose week
\* range does not parse comes after every row whose week range parses.
C3_SortedStableUnparsableLast ==
  (cache.valid /\ ShowsTable(cache.df)) =>
    LET df       == cache.df
        wk(i)    == WeekOptions(df)[i]
        ok(i)    == parse_week_range(wk(i)) # <<NoDate, NoDate>>
        start(i) == parse_start_date(wk(i))
    IN  \A i, j \in 1..Len(df.rows) :
          i < j =>
            /\ start(i) >= start(j)
            /\ start(i) = start(j) => df.rows[i].sheet_row < df.rows[j].sheet_row
            /\ ~(~ok(i) /\ ok(j))

\* C4: when no column of the grid has a cell matching the week-range
\* pattern, the page shows no period selector, no department editor and no
\* text area.
C4_NoWeekColumnNoTable ==
  \A s \in Sessions :
    (last.s = s /\ NoWeekPattern(sheet)) =>
      /\ view[s].opts = <<>>
      /\ ~view[s].editor
      /\ view[s].areas = <<>>
      /\ ~view[s].canSave

\* C5: a write whose department is not in the header changes no cell, is
\* reported to the user, and stops no other write: in "save all" every
\* department whose column resolves is written.
C5_LookupErrorIsLocal ==
  /\ (last.op = "save_cell" /\ get_col_index(last.pre, last.area.dept) = 0) =>
       sheet = last.pre /\ last.msg \in LookupReports
  /\ last.op = "save_all" =>
       /\ \A k \in 1..Len(last.texts) :
            LET t   == last.texts[k]
                col == get_col_index(last.pre, t.dept)
            IN  IF col = 0
                THEN last.msg \in LookupReports
                ELSE \E c \in 1..Len(last.cells) :
                       /\ last.cells[c].col = col
                       /\ last.cells[c].value = t.text
                       /\ sheet[last.cells[c].row][col] = t.text
       /\ \A r \in 1..Len(sheet) : \A c \in 1..Len(sheet[r]) :
            sheet[r][c] # last.pre[r][c] =>
              \E k \in 1..Len(last.cells) :
                last.cells[k].row = r /\ last.cells[k].col = c

\* C7: after a department save that renames D, a column of the header, to
\* D2, D2 is found at the column D had and D is not found.
C7_RenameKeepsColumn ==
  last.op = "dept_save" =>
    LET renames == Renames(last.original, CleanNames(last.edited))
    IN  \A k \in 1..Len(renames) :
          get_col_index(last.pre, renames[k][1]) # 0 =>
            /\ get_col_index(sheet, renames[k][2])
                 = get_col_index(last.pre, renames[k][1])
            /\ get_col_index(sheet, renames[k][1]) = 0

\* C8: no two columns of the header carry the same name.
C8_UniqueNames ==
  LET names == ResolveHeader(sheet[1])
  IN  \A i, j \in 1..Len(names) : i # j => names[i] # names[j]

\* The week label load_data gives the row at sheet row r of worksheet sh.
HasWeekAt(sh, r, week) ==
  \E df \in load_data(sh) :
    /\ ShowsTable(df)
    /\ \E i \in 1..Len(df.rows) :
         df.rows[i].sheet_row = r /\ WeekOptions(df)[i] = week

\* C10: with two sessions interleaved, a cell written by the auto-save or
\* by "save all" is in the row that, at the time of the write, holds the
\* week label of the text area it came from.
C10_WriteHitsEditedWeek ==
  /\ (last.op = "save_cell" /\ last.wrote) =>
       HasWeekAt(last.pre, last.area.sheet_row, last.area.week)
  /\ (last.op = "save_all" /\ last.wrote) =>
       \A c \in 1..Len(last.cells) :
         \E k \in 1..Len(last.texts) :
           HasWeekAt(last.pre, last.cells[c].row, last.texts[k].week)

\* Whether table df1 shows the row that table df0 has at position i, one
\* sheet row further down, with the same week label and the same text for
\* every department of df0.
KeepsRow(df0, df1, i) ==
  \E k \in 1..Len(df1.rows) :
    /\ df1.rows[k].sheet_row = df0.rows[i].sheet_row + 1
    /\ WeekOptions(df1)[k] = WeekOptions(df0)[i]
    /\ \A d \in 1..Len(get_dept_columns(df0)) :
         LET dept == get_dept_columns(df0)[d]
         IN  CurrentText(df1, dept, df1.rows[k].vals)
               = CurrentText(df0, dept, df0.rows[i].vals)

\* C11: when load_data detected the week column of the worksheet (under
\* whatever header name), then after "add new period" and a reload the
\* period selector offers the new label followed by the labels it offered
\* before, and every row that was there shows the week label and the
\* department texts it showed before.
C11_AddWeekKeepsWeeks ==
  (last.op = "add_week" /\ ~NoWeekPattern(last.pre)) =>
    \A df0 \in load_data(last.pre) :
      ShowsTable(df0) =>
        \E df1 \in load_data(sheet) :
          /\ ShowsTable(df1)
          /\ WeekOptions(df1) = <<last.label>> \o WeekOptions(df0)
          /\ \A i \in 1..Len(df0.rows) : KeepsRow(df0, df1, i)

\* The department names of the worksheet's header, in order.
HeaderDepts(sh) ==
  SelectSeq(ResolveHeader(row_values1(sh)),
            LAMBDA c : c # WEEK_COL /\ ~StartsWithUnderscore(c))

\* The body cells of the column named name (the first of that name).
ColumnOf(sh, name) ==
  [r \in 1..(Len(sh) - 1) |-> sh[r + 1][get_col_index(sh, name)]]

\* Whether a list of names has no blank entry and no name twice.
DistinctNonBlank(names) ==
  /\ \A i \in 1..Len(names) : Strip(names[i]) = names[i] /\ names[i] # Empty
  /\ \A i, j \in 1..Len(names) : i # j => names[i] # names[j]

\* C12: after "save department changes" on departments that are all
\* columns of the header, with an edited list of distinct non-blank names,
\* the department columns of the header are the edited list, in its order,
\* and a department that has the same place in both lists keeps the
\* contents of its column.
C12_HeaderEqualsEditedList ==
  (/\ last.op = "dept_save"
   /\ DistinctNonBlank(last.edited)
   /\ \A i \in 1..Len(last.original) :
        get_col_index(last.pre, last.original[i]) # 0) =>
    /\ HeaderDepts(sheet) = last.edited
    /\ \A i \in 1..Len(last.edited) :
         (i <= Len(last.original) /\ last.original[i] = last.edited[i]
            /\ get_col_index(last.pre, last.edited[i]) # 0) =>
           /\ get_col_index(sheet, last.edited[i]) # 0
           /\ ColumnOf(sheet, last.edited[i]) = ColumnOf(last.pre, last.edited[i])

====
